---------------------------- MODULE Spec2Model ----------------------------
(***************************************************************************)
(* GitHub OAuth handlers of the moderator dashboard:                       *)
(*   - the authorize handler (GET /api/github/authorize), which builds the *)
(*     provider authorization URL and redirects to it;                     *)
(*   - the callback handler (GET /api/github/callback), which exchanges    *)
(*     the code for a token, fetches the profile and the e-mail, hands the *)
(*     identity to the backend and sets the session cookie.                *)
(* One behaviour is one incoming request.  Every `await` of the callback   *)
(* handler is a step: the environment resolves or rejects the pending      *)
(* promise, and the handler runs up to its next `await`.                   *)
(***************************************************************************)
EXTENDS Integers, Sequences, FiniteSets, TLC

VARIABLES
    env,            \* process.env: NODE_ENV, GITHUB_CLIENT_ID
    route,          \* which handler serves the request
    pc,             \* the await the handler is suspended at
    code,           \* searchParams.get('code')
    calls,          \* outbound fetches issued so far, in order
    inflight,       \* fetches whose response has not been received yet
    tokenResponse,  \* status of tokenResponse (0: none)
    tokenData,
    userResponse,   \* status of userResponse (0: none)
    userData,
    emailsResponse, \* status of emailsResponse (0: none)
    emails,
    email,
    authResponse,   \* status of authResponse (0: none)
    authData,
    handoff,        \* JSON body POSTed to the backend
    response,       \* the response the handler returns
    log             \* what console.error received

vars == <<env, route, pc, code, calls, inflight, tokenResponse, tokenData,
          userResponse, userData, emailsResponse, emails, email,
          authResponse, authData, handoff, response, log>>

----------------------------------------------------------------------------
(* Bounds *)

MaxEmails == 2

----------------------------------------------------------------------------
(* JavaScript values *)

Undefined == "<undefined>"
Null == "<null>"

\* ToBoolean for the string-valued fields the handlers test with `!x`.
Truthy(v) == v \notin {Undefined, Null, ""}

\* a || b || c
OrElse(a, b) == IF Truthy(a) THEN a ELSE b

\* Response.ok
Ok(status) == status >= 200 /\ status <= 299

Statuses == {200, 401, 500}

----------------------------------------------------------------------------
(* Inputs *)

NodeEnvs == {Undefined, "development", "test", "production"}
ClientIds == {Undefined, "", "Iv1.client"}
Codes == {Null, "", "code-1"}

GithubTokens == {"gho_1", "gho_2"}
SessionTokens == {"jwt-A", "jwt-B"}
Addresses == {"a@x.io", "b@x.io"}

\* Parsed body of the token endpoint: JSON null, or an object.
TokenBodies ==
    {[kind |-> "null", access_token |-> Undefined]}
    \cup [kind : {"object"}, access_token : GithubTokens \cup {Undefined, ""}]

\* Parsed body of GET /user.
UserBodies ==
    {[kind |-> "null", email |-> Undefined, id |-> 0, login |-> Undefined]}
    \cup [kind : {"object"}, email : {Null, "", "pub@x.io"},
          id : {583231}, login : {"octocat"}]

EmailEntries == [email : Addresses \cup {""}, primary : BOOLEAN]

RECURSIVE SeqsUpTo(_, _)
SeqsUpTo(S, n) ==
    IF n = 0 THEN {<<>>}
    ELSE LET shorter == SeqsUpTo(S, n - 1)
         IN  shorter \cup {Append(s, x) : s \in shorter, x \in S}

\* Parsed body of GET /user/emails: an array of entries, or a non-array.
EmailsBodies ==
    {[kind |-> "object", list |-> <<>>]}
    \cup [kind : {"array"}, list : SeqsUpTo(EmailEntries, MaxEmails)]

\* Parsed body of the backend handoff.
AuthBodies ==
    {[kind |-> "null", access_token |-> Undefined]}
    \cup [kind : {"object"}, access_token : SessionTokens \cup {Undefined, ""}]

NoBody == [kind |-> "none", access_token |-> Undefined]
NoUser == [kind |-> "none", email |-> Undefined, id |-> 0, login |-> Undefined]
NoEmails == [kind |-> "none", list |-> <<>>]
NoHandoff == [sent |-> FALSE, access_token |-> Undefined, email |-> Undefined,
              github_id |-> 0, username |-> Undefined]

----------------------------------------------------------------------------
(* Responses *)

Url(path, error, client_id, redirect_uri, scope, state) ==
    [path |-> path, error |-> error, client_id |-> client_id,
     redirect_uri |-> redirect_uri, scope |-> scope, state |-> state]

NoUrl == Url(Undefined, Undefined, Undefined, Undefined, Undefined, Undefined)

LoginErrorUrl ==
    Url("/login", "github_oauth_failed", Undefined, Undefined, Undefined, Undefined)

ModeratorUrl ==
    Url("/moderator", Undefined, Undefined, Undefined, Undefined, Undefined)

NoResponse == [kind |-> "none", status |-> 0, location |-> NoUrl,
               cookies |-> {}, error |-> Undefined]

\* NextResponse.redirect(url): 307 by default.
Redirect(url) == [kind |-> "redirect", status |-> 307, location |-> url,
                  cookies |-> {}, error |-> Undefined]

\* NextResponse.json({ error }, { status })
JsonError(msg, status) == [kind |-> "json", status |-> status, location |-> NoUrl,
                           cookies |-> {}, error |-> msg]

----------------------------------------------------------------------------
(* Callback handler: the decisions of GET *)

NoError == "<none>"

MissingCodeNullOnly(c) == c = Null

\* if (!code)
MissingCode(c) == ~Truthy(c)

TokenCheckBoth(status, data) ==
    IF ~Ok(status) /\ (data.kind = "null" \/ ~Truthy(data.access_token))
    THEN "Failed to get access token"
    ELSE NoError

\* if (!tokenResponse.ok || !tokenData.access_token) throw ...
\* Reading a property of JSON null throws a TypeError.
TokenCheck(status, data) ==
    IF ~Ok(status) THEN "Failed to get access token"
    ELSE IF data.kind = "null" THEN "TypeError"
    ELSE IF ~Truthy(data.access_token) THEN "Failed to get access token"
    ELSE NoError

\* if (!userResponse.ok) throw ...; then userData.email is read.
UserCheck(status, data) ==
    IF ~Ok(status) THEN "Failed to get user data"
    ELSE IF data.kind = "null" THEN "TypeError"
    ELSE NoError

\* emails.find((e) => e.primary): the first entry flagged primary.
RECURSIVE Find(_)
Find(list) ==
    IF list = <<>> THEN <<>>
    ELSE IF Head(list).primary THEN <<Head(list)>>
    ELSE Find(Tail(list))

PrimaryAddressFirstEntry(list) ==
    IF list = <<>> THEN Undefined ELSE list[1].email

PrimaryAddressOrFirst(list) ==
    LET found == Find(list)
    IN  IF found # <<>> THEN found[1].email
        ELSE IF list = <<>> THEN Undefined ELSE list[1].email

\* primaryEmail?.email
PrimaryAddress(list) ==
    LET found == Find(list)
    IN  IF found = <<>> THEN Undefined ELSE found[1].email

\* if (!email) throw new Error('Email is required')
EmailRequired(e) == ~Truthy(e)

BackendFailedNever(status) == FALSE

\* if (!authResponse.ok) throw ...
BackendFailed(status) == ~Ok(status)

SecureFlagOutsideDevelopment(nodeEnv) == nodeEnv # "development"

\* process.env.NODE_ENV === 'production'
SecureFlag(nodeEnv) == nodeEnv = "production"

\* maxAge: 60 * 60 * 24 * 7
MaxAge == 60 * 60 * 24 * 7

AuthCookieProviderToken(data) ==
    [name |-> "auth_token", value |-> tokenData.access_token, httpOnly |-> TRUE,
     secure |-> SecureFlag(env.NODE_ENV), sameSite |-> "lax", path |-> "/",
     maxAge |-> MaxAge]

\* response.cookies.set('auth_token', authData.access_token, {...})
AuthCookie(data) ==
    [name |-> "auth_token", value |-> data.access_token, httpOnly |-> TRUE,
     secure |-> SecureFlag(env.NODE_ENV), sameSite |-> "lax", path |-> "/",
     maxAge |-> MaxAge]

\* body: JSON.stringify({ access_token, email, github_id, username })
HandoffBody(token, user, e) ==
    [sent |-> TRUE, access_token |-> token.access_token, email |-> e,
     github_id |-> user.id, username |-> user.login]

\* catch (error) { console.error(...); return redirect to the login page }
Catch(err) ==
    /\ log' = err
    /\ response' = Redirect(LoginErrorUrl)
    /\ pc' = "done"

\* Lines 65-82: the e-mail check, then the backend handoff is issued.
\* `settled` is the set of fetches still pending once the current await returned.
AfterEmail(user, e, settled) ==
    IF EmailRequired(e)
    THEN /\ Catch("Email is required")
         /\ inflight' = settled
         /\ UNCHANGED <<calls, handoff>>
    ELSE /\ handoff' = HandoffBody(tokenData, user, e)
         /\ calls' = Append(calls, "backend")
         /\ inflight' = settled \cup {"backend"}
         /\ pc' = "auth_fetch"
         /\ UNCHANGED <<response, log>>

FetchStages == {"token_fetch", "user_fetch", "emails_fetch", "auth_fetch"}
JsonStages == {"token_json", "user_json", "emails_json", "auth_json"}

----------------------------------------------------------------------------
(* Callback handler: the steps of GET *)

Init ==
    /\ env \in [NODE_ENV : NodeEnvs, GITHUB_CLIENT_ID : ClientIds]
    /\ route = "none"
    /\ pc = "idle"
    /\ code = Undefined
    /\ calls = <<>>
    /\ inflight = {}
    /\ tokenResponse = 0
    /\ tokenData = NoBody
    /\ userResponse = 0
    /\ userData = NoUser
    /\ emailsResponse = 0
    /\ emails = NoEmails
    /\ email = Undefined
    /\ authResponse = 0
    /\ authData = NoBody
    /\ handoff = NoHandoff
    /\ response = NoResponse
    /\ log = NoError

\* Entry up to the first await: the code check and the token-exchange fetch.
CallbackGET(c) ==
    /\ pc = "idle"
    /\ route' = "callback"
    /\ code' = c
    /\ IF MissingCode(c)
       THEN /\ response' = Redirect(LoginErrorUrl)
            /\ pc' = "done"
            /\ UNCHANGED <<calls, inflight, log>>
       ELSE /\ calls' = Append(calls, "token")
            /\ inflight' = inflight \cup {"token"}
            /\ pc' = "token_fetch"
            /\ UNCHANGED <<response, log>>
    /\ UNCHANGED <<env, tokenResponse, tokenData, userResponse, userData,
                   emailsResponse, emails, email, authResponse, authData, handoff>>

FetchRejectRetry ==
    /\ pc \in FetchStages
    /\ Len(calls) < 5
    /\ calls' = Append(calls, calls[Len(calls)])
    /\ UNCHANGED <<env, route, pc, code, inflight, tokenResponse, tokenData,
                   userResponse, userData, emailsResponse, emails, email,
                   authResponse, authData, handoff, response, log>>

\* await fetch(...) rejects (network error) at any of the four calls.
FetchReject ==
    /\ pc \in FetchStages
    /\ inflight' = {}
    /\ Catch("NetworkError")
    /\ UNCHANGED <<env, route, code, calls, tokenResponse, tokenData, userResponse,
                   userData, emailsResponse, emails, email, authResponse, authData,
                   handoff>>

\* await response.json() rejects (the body is not JSON).
JsonReject ==
    /\ pc \in JsonStages
    /\ Catch("SyntaxError")
    /\ UNCHANGED <<env, route, code, calls, inflight, tokenResponse, tokenData,
                   userResponse, userData, emailsResponse, emails, email,
                   authResponse, authData, handoff>>

TokenFetchResolve(status) ==
    /\ pc = "token_fetch"
    /\ tokenResponse' = status
    /\ inflight' = inflight \ {"token"}
    /\ pc' = "token_json"
    /\ UNCHANGED <<env, route, code, calls, tokenData, userResponse, userData,
                   emailsResponse, emails, email, authResponse, authData, handoff,
                   response, log>>

TokenJsonResolve(data) ==
    /\ pc = "token_json"
    /\ tokenData' = data
    /\ LET err == TokenCheck(tokenResponse, data)
       IN  IF err # NoError
           THEN /\ Catch(err)
                /\ UNCHANGED <<calls, inflight>>
           ELSE /\ calls' = Append(calls, "user")
                /\ inflight' = inflight \cup {"user"}
                /\ pc' = "user_fetch"
                /\ UNCHANGED <<response, log>>
    /\ UNCHANGED <<env, route, code, tokenResponse, userResponse, userData,
                   emailsResponse, emails, email, authResponse, authData, handoff>>

UserFetchResolve(status) ==
    /\ pc = "user_fetch"
    /\ userResponse' = status
    /\ inflight' = inflight \ {"user"}
    /\ pc' = "user_json"
    /\ UNCHANGED <<env, route, code, calls, tokenResponse, tokenData, userData,
                   emailsResponse, emails, email, authResponse, authData, handoff,
                   response, log>>

UserJsonResolve(data) ==
    /\ pc = "user_json"
    /\ userData' = data
    /\ LET err == UserCheck(userResponse, data)
       IN  IF err # NoError
           THEN /\ Catch(err)
                /\ UNCHANGED <<calls, inflight, email, handoff>>
           ELSE /\ email' = data.email
                /\ IF ~Truthy(data.email)
                   THEN /\ calls' = Append(calls, "emails")
                        /\ inflight' = inflight \cup {"emails"}
                        /\ pc' = "emails_fetch"
                        /\ UNCHANGED <<handoff, response, log>>
                   ELSE AfterEmail(data, data.email, inflight)
    /\ UNCHANGED <<env, route, code, tokenResponse, tokenData, userResponse,
                   emailsResponse, emails, authResponse, authData>>

EmailsFetchResolve(status) ==
    /\ pc = "emails_fetch"
    /\ emailsResponse' = status
    /\ IF Ok(status)
       THEN /\ pc' = "emails_json"
            /\ inflight' = inflight \ {"emails"}
            /\ UNCHANGED <<calls, handoff, response, log>>
       ELSE AfterEmail(userData, email, inflight \ {"emails"})
    /\ UNCHANGED <<env, route, code, tokenResponse, tokenData, userResponse,
                   userData, emails, email, authResponse, authData>>

EmailsJsonResolve(body) ==
    /\ pc = "emails_json"
    /\ emails' = body
    /\ IF body.kind # "array"
       THEN /\ Catch("TypeError")
            /\ UNCHANGED <<calls, inflight, email, handoff>>
       ELSE /\ email' = PrimaryAddress(body.list)
            /\ AfterEmail(userData, PrimaryAddress(body.list), inflight)
    /\ UNCHANGED <<env, route, code, tokenResponse, tokenData, userResponse,
                   userData, emailsResponse, authResponse, authData>>

AuthFetchResolve(status) ==
    /\ pc = "auth_fetch"
    /\ authResponse' = status
    /\ inflight' = inflight \ {"backend"}
    /\ IF BackendFailed(status)
       THEN Catch("Backend authentication failed")
       ELSE /\ pc' = "auth_json"
            /\ UNCHANGED <<response, log>>
    /\ UNCHANGED <<env, route, code, calls, tokenResponse, tokenData, userResponse,
                   userData, emailsResponse, emails, email, authData, handoff>>

AuthJsonResolve(data) ==
    /\ pc = "auth_json"
    /\ authData' = data
    /\ IF data.kind = "null"
       THEN Catch("TypeError")
       ELSE /\ response' = [Redirect(ModeratorUrl) EXCEPT
                               !.cookies = {AuthCookie(data)}]
            /\ pc' = "done"
            /\ UNCHANGED log
    /\ UNCHANGED <<env, route, code, calls, inflight, tokenResponse, tokenData,
                   userResponse, userData, emailsResponse, emails, email,
                   authResponse, handoff>>

----------------------------------------------------------------------------
(* Authorize handler *)

Origins == {Null, "https://app.example"}
Referers == {Null, "https://app.example/login"}
RandomStates == {"", "k3x9z"}

ClientIdUndefinedOnly(clientId) == clientId = Undefined

\* if (!clientId)
ClientIdMissing(clientId) == ~Truthy(clientId)

\* origin || referer || 'http://localhost:3000', then `${origin}/api/github/callback`
AuthorizeCallbackUrl(origin, referer) ==
    OrElse(origin, OrElse(referer, "http://localhost:3000")) \o "/api/github/callback"

AuthorizeUrl(clientId, callbackUrl, rnd) ==
    Url("https://github.com/login/oauth/authorize", Undefined, clientId,
        callbackUrl, "user:email", rnd)

AuthorizeGET(origin, referer, rnd) ==
    /\ pc = "idle"
    /\ route' = "authorize"
    /\ pc' = "done"
    /\ IF ClientIdMissing(env.GITHUB_CLIENT_ID)
       THEN response' = JsonError("GITHUB_CLIENT_ID is not configured", 500)
       ELSE response' = Redirect(AuthorizeUrl(env.GITHUB_CLIENT_ID,
                                              AuthorizeCallbackUrl(origin, referer), rnd))
    /\ UNCHANGED <<env, code, calls, inflight, tokenResponse, tokenData, userResponse,
                   userData, emailsResponse, emails, email, authResponse, authData,
                   handoff, log>>

----------------------------------------------------------------------------

Next ==
    \/ \E c \in Codes : CallbackGET(c)
    \/ FetchReject
    \/ JsonReject
    \/ \E s \in Statuses : TokenFetchResolve(s)
    \/ \E d \in TokenBodies : TokenJsonResolve(d)
    \/ \E s \in Statuses : UserFetchResolve(s)
    \/ \E d \in UserBodies : UserJsonResolve(d)
    \/ \E s \in Statuses : EmailsFetchResolve(s)
    \/ \E b \in EmailsBodies : EmailsJsonResolve(b)
    \/ \E s \in Statuses : AuthFetchResolve(s)
    \/ \E d \in AuthBodies : AuthJsonResolve(d)
    \/ \E o \in Origins, r \in Referers, x \in RandomStates : AuthorizeGET(o, r, x)

Spec == Init /\ [][Next]_vars

----------------------------------------------------------------------------
(* Outcomes of the callback handler *)

CallbackDone == route = "callback" /\ pc = "done"

\* Redirect to /login?error=github_oauth_failed without any cookie.
Failed ==
    /\ response.kind = "redirect"
    /\ response.location = LoginErrorUrl
    /\ response.cookies = {}

\* Redirect to /moderator carrying an auth_token cookie.
Redirected ==
    /\ response.kind = "redirect"
    /\ response.location = ModeratorUrl
    /\ \E c \in response.cookies : c.name = "auth_token"

PrimaryIndexes(list) == {i \in 1..Len(list) : list[i].primary}

TokenLacking == tokenData.kind # "none" /\ ~(tokenData.access_token \in GithubTokens)

Rank(c) ==
    CASE c = "token" -> 1
      [] c = "user" -> 2
      [] c = "emails" -> 3
      [] c = "backend" -> 4

----------------------------------------------------------------------------
(* Properties *)

\* C1: a callback request whose `code` is absent or empty is answered with a
\* redirect to /login?error=github_oauth_failed, without a cookie and without
\* any outbound call.
C1_MissingCodeFails ==
    (route = "callback" /\ code \in {Null, ""}) =>
        /\ pc = "done"
        /\ Failed
        /\ calls = <<>>
        /\ inflight = {}
        /\ ~handoff.sent

C1_Witness == route = "callback" /\ code = "" /\ pc = "done"

\* C2: on full success the response redirects to /moderator with the cookie
\* auth_token = T (the backend's token), HttpOnly, SameSite=Lax, Path=/ and
\* Max-Age=604800.
C2_SuccessSetsSessionCookie ==
    ( /\ CallbackDone
      /\ Truthy(code)
      /\ Ok(tokenResponse) /\ tokenData.access_token \in GithubTokens
      /\ Ok(userResponse) /\ userData.kind = "object"
      /\ Truthy(email)
      /\ Ok(authResponse) /\ authData.access_token \in SessionTokens ) =>
        /\ response.kind = "redirect"
        /\ response.location = ModeratorUrl
        /\ Cardinality(response.cookies) = 1
        /\ \A c \in response.cookies :
              /\ c.name = "auth_token"
              /\ c.value = authData.access_token
              /\ c.httpOnly
              /\ c.sameSite = "lax"
              /\ c.path = "/"
              /\ c.maxAge = 604800

C2_Witness ==
    /\ CallbackDone
    /\ authData.access_token = "jwt-B"
    /\ tokenData.access_token = "gho_1"
    /\ response.location = ModeratorUrl

\* C3: a finished callback is either Failed (login redirect, no cookie) or
\* Redirected (/moderator with the cookie), never both; any failed step (missing
\* code, thrown error, unsuccessful exchange, profile or handoff, no e-mail)
\* ends in Failed.
C3_TwoTerminalOutcomes ==
    CallbackDone =>
        /\ Failed \/ Redirected
        /\ ~(Failed /\ Redirected)
        /\ ( \/ ~Truthy(code)
             \/ log # NoError
             \/ (tokenResponse # 0 /\ ~Ok(tokenResponse))
             \/ TokenLacking
             \/ (userResponse # 0 /\ ~Ok(userResponse))
             \/ (emailsResponse # 0 /\ ~Ok(emailsResponse))
             \/ ~Truthy(email)
             \/ (authResponse # 0 /\ ~Ok(authResponse)) ) => Failed
        /\ Failed => response.cookies = {}

C3_Witness ==
    /\ CallbackDone
    /\ authResponse = 500
    /\ handoff.sent
    /\ Failed

\* C4: a token-exchange response with a non-success status, or whose body lacks
\* access_token, ends in the login redirect and no profile, emails or backend
\* call is issued.
C4_TokenExchangeFailureStops ==
    (route = "callback" /\ ((tokenResponse # 0 /\ ~Ok(tokenResponse)) \/ TokenLacking)) =>
        /\ calls = <<"token">>
        /\ pc \in {"token_json", "done"}
        /\ pc = "done" => Failed
        /\ ~handoff.sent

C4_Witness ==
    /\ CallbackDone
    /\ tokenResponse = 401
    /\ tokenData.access_token = "gho_1"

\* C5: with a profile e-mail of null and an e-mail list holding exactly one
\* primary entry, the resolved e-mail, and the e-mail sent to the backend, is
\* that entry's address wherever the entry stands in the list.
C5_PrimaryEmailResolved ==
    ( /\ route = "callback"
      /\ userData.kind = "object" /\ userData.email = Null
      /\ emails.kind = "array"
      /\ Cardinality(PrimaryIndexes(emails.list)) = 1 ) =>
        \A i \in PrimaryIndexes(emails.list) :
            /\ email = emails.list[i].email
            /\ handoff.sent => handoff.email = emails.list[i].email
            /\ emails.list[i].email # "" => handoff.sent

C5_Witness ==
    /\ route = "callback"
    /\ userData.email = Null
    /\ emails.kind = "array"
    /\ Len(emails.list) = 2
    /\ PrimaryIndexes(emails.list) = {2}
    /\ emails.list[1].email = "a@x.io"
    /\ handoff.sent
    /\ handoff.email = "b@x.io"

\* C6: with a profile e-mail of null and no primary entry in the e-mail list the
\* flow fails: login redirect, no backend handoff, no cookie.
C6_NoPrimaryEmailFails ==
    ( /\ route = "callback"
      /\ userData.kind = "object" /\ userData.email = Null
      /\ emails.kind = "array"
      /\ PrimaryIndexes(emails.list) = {} ) =>
        /\ pc = "done"
        /\ Failed
        /\ ~handoff.sent
        /\ \A i \in 1..Len(calls) : calls[i] # "backend"

C6_Witness ==
    /\ route = "callback"
    /\ userData.email = Null
    /\ emails.kind = "array"
    /\ Len(emails.list) = 2
    /\ PrimaryIndexes(emails.list) = {}
    /\ pc = "done"

\* C7: the auth_token cookie is Secure exactly when NODE_ENV is `production`.
C7_SecureOnlyInProduction ==
    route = "callback" =>
        \A c \in response.cookies :
            c.name = "auth_token" => (c.secure <=> env.NODE_ENV = "production")

C7_Witness ==
    /\ route = "callback"
    /\ env.NODE_ENV = Undefined
    /\ \E c \in response.cookies : c.name = "auth_token" /\ ~c.secure

\* C8: without a configured client identifier the authorize handler answers 500
\* with a JSON error and no redirect; with one it always redirects to the
\* provider and never answers 500.
C8_AuthorizeConfigError ==
    (route = "authorize" /\ pc = "done") =>
        IF env.GITHUB_CLIENT_ID \in {Undefined, ""}
        THEN /\ response.kind = "json"
             /\ response.status = 500
             /\ Truthy(response.error)
             /\ response.location = NoUrl
        ELSE /\ response.kind = "redirect"
             /\ response.status # 500
             /\ response.location.path = "https://github.com/login/oauth/authorize"
             /\ response.location.client_id = env.GITHUB_CLIENT_ID

C8_Witness ==
    /\ route = "authorize"
    /\ pc = "done"
    /\ env.GITHUB_CLIENT_ID = ""
    /\ response.status = 500

C10_RedirectNeedsSessionToken ==
    (route = "callback" /\ response.location = ModeratorUrl) =>
        /\ authData.kind = "object"
        /\ Truthy(authData.access_token)
        /\ response.cookies # {}
        /\ \A c \in response.cookies : c.value = authData.access_token

============================================================================
